---- MODULE Spec2Model ----
(***************************************************************************)
(* A model of foyer_xml_trimmer: the bonded-parameter matcher              *)
(* (_topology_match) and the atom-type resolver of forcefield_trim.         *)
(*                                                                         *)
(* An attribute dictionary of an XML element is a function whose domain    *)
(* is its set of attribute keys, the strings "class1", "type2", ...        *)
(***************************************************************************)
EXTENDS Integers, Sequences, FiniteSets, TLC

VARIABLES
    pc,                 \* position of the run
    topo_type,          \* _topology_match: the interaction kind
    atom_type_dict,     \* type -> class map
    topo_temp,          \* the structure's interactions of the kind, source order
    xml_root,           \* the candidate records of the kind, document order
    topo_by_type,       \* the retained (unique) interactions
    topo_entries,       \* the classified records, sorted by weight
    unique_collection,  \* the value lists already emitted
    section,            \* the kind's section of the output document
    matched,            \* per processed unique interaction: index in topo_entries of the
                        \* record at which not_matched became False, 0 if none
    typed_atoms,        \* forcefield_trim: the atom-type names of the structure's atoms
    type_records,       \* the <Type> definition records, document order
    atom_type_keys,     \* insertion order of the keys of atom_type_dict
    notes,              \* the identifiers printed by the "Note:" line, in order
    passes              \* number of completed passes of the while loop

vars == <<pc, topo_type, atom_type_dict, topo_temp, xml_root, topo_by_type,
          topo_entries, unique_collection, section, matched,
          typed_atoms, type_records, atom_type_keys, notes, passes>>

matchVars == <<topo_type, topo_temp, xml_root, topo_by_type, topo_entries,
               unique_collection, section, matched>>

resolveVars == <<typed_atoms, type_records, atom_type_keys, notes, passes>>

----------------------------------------------------------------------------
(* Bounds of the model *)

\* longest list of interactions of one kind in the structure
MaxTopo == 2

\* largest number of candidate records of one kind in the document
MaxEntries == 2

\* largest number of atoms in the structure (atom-type resolver)
MaxAtoms == 2

\* largest number of <Type> definition records in the document
MaxTypes == 2

\* cap on the number of passes of the resolver's while loop
MaxPasses == 6

----------------------------------------------------------------------------
(* _topology_match: the tables *)

Kinds == {"Bond", "Angle", "Proper", "Improper"}

\* n_params as passed by forcefield_trim for each kind
NParams(kind) ==
    CASE kind = "Bond" -> 2
      [] kind = "Angle" -> 3
      [] kind = "Proper" -> 4
      [] kind = "Improper" -> 4

\* a faulty variant of sequences: the improper table lacks the three orderings
\* that move the second atom to the end
SequencesOpen(kind) ==
    CASE kind = "Bond" -> << <<0,1>>, <<1,0>> >>
      [] kind = "Angle" -> << <<0,1,2>>, <<2,1,0>> >>
      [] kind = "Proper" -> << <<0,1,2,3>>, <<3,2,1,0>> >>
      [] kind = "Improper" -> << <<0,1,2,3>>, <<0,1,3,2>>, <<0,2,1,3>> >>

\* the equivalent orderings of a kind, as 0-based index lists
sequences(kind) ==
    CASE kind = "Bond" -> << <<0,1>>, <<1,0>> >>
      [] kind = "Angle" -> << <<0,1,2>>, <<2,1,0>> >>
      [] kind = "Proper" -> << <<0,1,2,3>>, <<3,2,1,0>> >>
      [] kind = "Improper" -> << <<0,1,2,3>>, <<0,1,3,2>>, <<0,2,1,3>>,
                                 <<0,2,3,1>>, <<0,3,1,2>>, <<0,3,2,1>> >>

\* [topo_af[i] for i in seq]
Permute(topo_af, seq) == [i \in 1..Len(seq) |-> topo_af[seq[i] + 1]]

----------------------------------------------------------------------------
(* _topology_match: the scan that drops duplicates *)

\* a faulty variant of IsUnique: plain list membership, the orderings are not tried
IsUniquePlain(topo_af, accepted, kind) ==
    \A k \in 1..Len(accepted) : accepted[k] # topo_af

\* TRUE when no ordering of topo_af is already in the accepted list
IsUnique(topo_af, accepted, kind) ==
    \A s \in 1..Len(sequences(kind)) :
        \A k \in 1..Len(accepted) :
            accepted[k] # Permute(topo_af, sequences(kind)[s])

RECURSIVE Dedup(_, _, _)
\* the loop over topo_temp, from element k on, with the accepted list so far
Dedup(topo, accepted, kind) ==
    IF topo = <<>> THEN accepted
    ELSE Dedup(Tail(topo),
               IF IsUnique(Head(topo), accepted, kind)
               THEN Append(accepted, Head(topo)) ELSE accepted,
               kind)

----------------------------------------------------------------------------
(* _identify_schema and the priority order *)

\* f'class{i}'
ClassKey(i) == <<"class1", "class2", "class3", "class4">>[i]

\* f'type{i}'
TypeKey(i) == <<"type1", "type2", "type3", "type4">>[i]

\* 'class' in schema, for a schema entry of _identify_schema
HasClass(schema) == schema \in {"class1", "class2", "class3", "class4"}

\* _identify_schema(attrib_dict, nparams): position i is class{i} when the
\* record defines that attribute, type{i} otherwise; weight counts the former
IdentifySchema(attrib_dict, nparams) ==
    [schema |-> [i \in 1..nparams |->
                    IF ClassKey(i) \in DOMAIN attrib_dict
                    THEN ClassKey(i) ELSE TypeKey(i)],
     weight |-> Cardinality({i \in 1..nparams : ClassKey(i) \in DOMAIN attrib_dict})]

\* the dictionary built for one record of the document
TopoDict(attrib, nparams) ==
    [schema |-> IdentifySchema(attrib, nparams).schema,
     weight |-> IdentifySchema(attrib, nparams).weight,
     attrib |-> attrib]

\* topo_entry_temp: one dictionary per record, document order
TopoEntryTemp(root, nparams) ==
    [k \in 1..Len(root) |-> TopoDict(root[k], nparams)]

\* the stable insertion of one entry into a list sorted by weight
InsertByWeight(sorted, e) ==
    SelectSeq(sorted, LAMBDA x : x.weight <= e.weight)
        \o <<e>> \o SelectSeq(sorted, LAMBDA x : x.weight > e.weight)

RECURSIVE SortFrom(_, _)
SortFrom(sorted, rest) ==
    IF rest = <<>> THEN sorted
    ELSE SortFrom(InsertByWeight(sorted, Head(rest)), Tail(rest))

\* a faulty variant of Sorted: sorted(...)[::-1], the sorted list read
\* backwards, so that the least specific entries and, among entries of equal
\* weight, the later ones of the document come first
SortedReversed(entries) ==
    [i \in 1..Len(entries) |->
        SortFrom(<<>>, entries)[Len(entries) + 1 - i]]

\* sorted(topo_entry_temp, key=lambda d: d['weight']): ascending, stable
Sorted(entries) == SortFrom(<<>>, entries)

----------------------------------------------------------------------------
(* _topology_match: the search for the record of one interaction *)

\* _switch_class_type(schema, atom_class, atom_type)
SwitchClassType(schema, atom_class, atom_type) ==
    IF HasClass(schema) THEN atom_class ELSE atom_type

\* topo[schema[i]] raises KeyError for some position of the record
Raises(topo_entry) ==
    \E i \in DOMAIN topo_entry.schema :
        topo_entry.schema[i] \notin DOMAIN topo_entry.attrib

\* the list match after the loop over the positions of seq_test
MatchList(topo_entry, seq_test, d) ==
    [i \in 1..Len(seq_test) |->
        topo_entry.attrib[topo_entry.schema[i]]
            = SwitchClassType(topo_entry.schema[i], d[seq_test[i]], seq_test[i])]

\* the list collection after the loop over the positions
Collection(topo_entry) ==
    [i \in DOMAIN topo_entry.schema |-> topo_entry.attrib[topo_entry.schema[i]]]

\* a faulty variant of AllMatch: any(match)
AnyMatch(match) == \E i \in DOMAIN match : match[i]

\* all(match)
AllMatch(match) == \A i \in DOMAIN match : match[i]

RECURSIVE SearchFrom(_, _, _, _, _, _)
\* the loops over topo_entries (from e) and over the orderings (from s) while
\* not_matched holds: the entry that matches, the entry whose comparison
\* raises, or neither
SearchFrom(topo_element, entries, d, kind, e, s) ==
    IF e > Len(entries) THEN [outcome |-> "none", entry |-> 0]
    ELSE IF s > Len(sequences(kind))
         THEN SearchFrom(topo_element, entries, d, kind, e + 1, 1)
    ELSE IF Raises(entries[e]) THEN [outcome |-> "error", entry |-> e]
    ELSE IF AllMatch(MatchList(entries[e],
                               Permute(topo_element, sequences(kind)[s]), d))
         THEN [outcome |-> "match", entry |-> e]
    ELSE SearchFrom(topo_element, entries, d, kind, e, s + 1)

\* a faulty variant of Search: the comparison is not guarded by not_matched, so
\* every entry is compared with every interaction
SearchEager(topo_element, entries, d, kind) ==
    IF \E e \in 1..Len(entries) : Raises(entries[e])
    THEN [outcome |-> "error",
          entry |-> CHOOSE e \in 1..Len(entries) : Raises(entries[e])]
    ELSE SearchFrom(topo_element, entries, d, kind, 1, 1)

\* the body of the loop over topo_by_type for one interaction
Search(topo_element, entries, d, kind) ==
    SearchFrom(topo_element, entries, d, kind, 1, 1)

\* a faulty variant of NotIn: the test of unique_collection is dropped
NotInAlways(collection, seen) == TRUE

\* collection not in unique_collection
NotIn(collection, seen) == \A k \in 1..Len(seen) : seen[k] # collection

\* a faulty variant of AppendElem: the element is inserted at the head of the section
AppendElemFront(sec, elem) == <<elem>> \o sec

\* child.append(elem) on the kind's section of the output
AppendElem(sec, elem) == Append(sec, elem)

----------------------------------------------------------------------------
(* _topology_match: the inputs of the model *)

\* the atom types of the structure
TypeIds == {"a", "b"}

\* the resolved type -> class maps the matcher is run with: both types in
\* class "b", or type "a" in class "b" and type "b" in class "c"
AtomTypeDicts ==
    { ("a" :> "b") @@ ("b" :> "b"),
      ("a" :> "b") @@ ("b" :> "c") }

\* the tuple of n atom types with "b" at position p and "a" elsewhere
OneB(n, p) == [i \in 1..n |-> IF i = p THEN "b" ELSE "a"]

\* the tuple of n atom types that are all v
AllOf(n, v) == [i \in 1..n |-> v]

\* the positions "b" takes in the interactions of a kind
BPos(kind) ==
    CASE kind = "Bond" -> {1, 2}
      [] kind = "Angle" -> {1, 3}
      [] kind = "Proper" -> {1, 4}
      [] kind = "Improper" -> {2, 3, 4}

\* the interactions a structure may hold, per kind
TopoDomain(kind) ==
    {OneB(NParams(kind), p) : p \in BPos(kind)}
        \cup {AllOf(NParams(kind), "a"), AllOf(NParams(kind), "b")}

\* the attribute dictionary with class{i} or type{i}, as kinds[i] says, set
\* to vals[i] for every position whose kind is not "none"
Attrib(kinds, vals) ==
    LET key(i) == IF kinds[i] = "class" THEN ClassKey(i) ELSE TypeKey(i)
        used == {i \in DOMAIN kinds : kinds[i] # "none"}
    IN  [k \in {key(i) : i \in used} |-> vals[CHOOSE i \in used : key(i) = k]]

\* the attribute dictionary with the parameter attribute k set to v
WithPayload(attrib, v) ==
    [key \in DOMAIN attrib \cup {"k"} |-> IF key = "k" THEN v ELSE attrib[key]]

\* the candidate records a document may hold, per kind: two all-type records,
\* a second record with the types of the first one and another parameter
\* value, an all-class record with the values of an all-type one, a record
\* with a type position and class positions, and a record that lacks both
\* attributes of its last position
RecordSet(kind) ==
    LET n == NParams(kind) IN
    { Attrib(AllOf(n, "type"), OneB(n, n)),
      WithPayload(Attrib(AllOf(n, "type"), OneB(n, n)), "2"),
      Attrib(AllOf(n, "type"), AllOf(n, "b")),
      Attrib(AllOf(n, "class"), AllOf(n, "b")),
      Attrib([i \in 1..n |-> IF i = 1 THEN "type" ELSE "class"],
             [i \in 1..n |-> IF i = 1 THEN "a" ELSE "b"]),
      Attrib([i \in 1..n |-> IF i = 1 THEN "class"
                             ELSE IF i = n THEN "none" ELSE "type"],
             [i \in 1..n |-> IF i = 1 THEN "b" ELSE "a"]) }

\* the sequences over S of length at most n
SeqUpTo(S, n) == UNION {[1..k -> S] : k \in 0..n}

----------------------------------------------------------------------------
(* _topology_match: the run *)

Init ==
    /\ pc = "enumerate"
    /\ topo_type \in Kinds
    /\ atom_type_dict \in AtomTypeDicts
    /\ topo_temp \in SeqUpTo(TopoDomain(topo_type), MaxTopo)
    /\ xml_root \in SeqUpTo(RecordSet(topo_type), MaxEntries)
    /\ topo_by_type = <<>>
    /\ topo_entries = <<>>
    /\ unique_collection = <<>>
    /\ section = <<>>
    /\ matched = <<>>
    /\ typed_atoms = <<>>
    /\ type_records = <<>>
    /\ atom_type_keys = <<>>
    /\ notes = <<>>
    /\ passes = 0

\* the loop over the structure's interactions that fills topo_by_type
Enumerate ==
    /\ pc = "enumerate"
    /\ topo_by_type' = Dedup(topo_temp, <<>>, topo_type)
    /\ pc' = "classify"
    /\ UNCHANGED <<topo_type, atom_type_dict, topo_temp, xml_root, topo_entries,
                   unique_collection, section, matched>>
    /\ UNCHANGED resolveVars

\* the loop over the document's records and the sort by weight
Classify ==
    /\ pc = "classify"
    /\ topo_entries' = Sorted(TopoEntryTemp(xml_root, NParams(topo_type)))
    /\ pc' = IF topo_by_type = <<>> THEN "done" ELSE "match"
    /\ UNCHANGED <<topo_type, atom_type_dict, topo_temp, xml_root, topo_by_type,
                   unique_collection, section, matched>>
    /\ UNCHANGED resolveVars

\* one iteration of the loop over topo_by_type
MatchStep ==
    /\ pc = "match"
    /\ \E r \in {Search(topo_by_type[Len(matched) + 1], topo_entries,
                        atom_type_dict, topo_type)} :
          IF r.outcome = "error"
          THEN /\ pc' = "error"
               /\ UNCHANGED <<unique_collection, section, matched>>
          ELSE /\ pc' = IF Len(matched) + 1 = Len(topo_by_type)
                        THEN "done" ELSE "match"
               /\ matched' = Append(matched, r.entry)
               /\ IF r.outcome = "match"
                     /\ NotIn(Collection(topo_entries[r.entry]), unique_collection)
                  THEN /\ unique_collection' =
                              Append(unique_collection,
                                     Collection(topo_entries[r.entry]))
                       /\ section' = AppendElem(section, topo_entries[r.entry].attrib)
                  ELSE UNCHANGED <<unique_collection, section>>
    /\ UNCHANGED <<topo_type, atom_type_dict, topo_temp, xml_root, topo_by_type,
                   topo_entries>>
    /\ UNCHANGED resolveVars

Next == Enumerate \/ Classify \/ MatchStep

Spec == Init /\ [][Next]_vars

----------------------------------------------------------------------------
(* The vocabulary of the properties, stated without the matcher's operators *)

Range(s) == {s[i] : i \in DOMAIN s}

\* the tuple read backwards
Reverse(t) == [i \in 1..Len(t) |-> t[Len(t) + 1 - i]]

\* the orderings of four atoms that keep the first atom in place
StarPerms ==
    { <<1, 2, 3, 4>>, <<1, 2, 4, 3>>, <<1, 3, 2, 4>>,
      <<1, 3, 4, 2>>, <<1, 4, 2, 3>>, <<1, 4, 3, 2>> }

\* the tuples equivalent to t: t and its reverse for the two-body, three-body
\* and four-body chain kinds; for the four-body star kind the tuples with the
\* same first atom and the peripheral atoms in any of their six orders
Orbit(kind, t) ==
    IF kind = "Improper"
    THEN {[i \in 1..4 |-> t[p[i]]] : p \in StarPerms}
    ELSE {t, Reverse(t)}

\* every position of the record is defined and equals the class (class
\* position) or the type (type position) of the tuple's atom
RecMatches(attrib, u, d) ==
    \A i \in 1..Len(u) :
        \/ /\ ClassKey(i) \in DOMAIN attrib
           /\ attrib[ClassKey(i)] = d[u[i]]
        \/ /\ ClassKey(i) \notin DOMAIN attrib
           /\ TypeKey(i) \in DOMAIN attrib
           /\ attrib[TypeKey(i)] = u[i]

\* the record matches the interaction under some equivalent ordering
Fits(attrib, t) ==
    \E u \in Orbit(topo_type, t) : RecMatches(attrib, u, atom_type_dict)

\* the record lacks both attributes of some position
Malformed(attrib) ==
    \E i \in 1..NParams(topo_type) :
        ClassKey(i) \notin DOMAIN attrib /\ TypeKey(i) \notin DOMAIN attrib

\* number of class-constrained positions of a record
ClassCount(attrib) ==
    Cardinality({i \in 1..NParams(topo_type) : ClassKey(i) \in DOMAIN attrib})

\* record i of the document comes before record j in priority order
Prec(i, j) ==
    \/ ClassCount(xml_root[i]) < ClassCount(xml_root[j])
    \/ ClassCount(xml_root[i]) = ClassCount(xml_root[j]) /\ i < j

\* the document's records that match interaction t
MatchSet(t) == {j \in 1..Len(xml_root) : Fits(xml_root[j], t)}

\* the first record of a non-empty set of records in priority order
Best(M) == CHOOSE j \in M : \A i \in M : i # j => Prec(j, i)

\* the record selected for the k-th unique interaction
Selected(k) == topo_entries[matched[k]].attrib

\* the unique interactions, among those processed, that selected the record
Selectors(rec) ==
    {k \in 1..Len(matched) : matched[k] > 0 /\ Selected(k) = rec}

\* the least element of a non-empty set of numbers
Least(S) == CHOOSE k \in S : \A m \in S : k <= m

----------------------------------------------------------------------------
(* Properties of _topology_match *)

\* C1: when the run of a kind is finished, every unique interaction that
\* matches at least one record has the first matching record in priority
\* order in the kind's output section.
NoMatchedRecordOmitted ==
    pc = "done" =>
        \A k \in 1..Len(topo_by_type) :
            \A M \in {MatchSet(topo_by_type[k])} :
                M # {} => xml_root[Best(M)] \in Range(section)

\* C2: the record selected for a unique interaction is, among the records of
\* the document that match it, the one with the fewest class positions, and
\* among those the first of the document; an interaction selects no record
\* only when none matches.
SelectsMostSpecific ==
    \A k \in 1..Len(matched) :
        \A M \in {MatchSet(topo_by_type[k])} :
            /\ matched[k] = 0 => M = {}
            /\ matched[k] > 0 => M # {} /\ Selected(k) = xml_root[Best(M)]

\* C2 happens: two different records of equal weight match the interaction
\* and the one that comes first in the document is selected
SelectsMostSpecificWitness ==
    /\ pc = "done"
    /\ \E k \in 1..Len(matched) :
          /\ matched[k] > 0
          /\ \E M \in {MatchSet(topo_by_type[k])} :
                \E i, j \in M :
                    /\ i < j
                    /\ xml_root[i] # xml_root[j]
                    /\ ClassCount(xml_root[i]) = ClassCount(xml_root[j])
                    /\ i = Best(M)
                    /\ Selected(k) = xml_root[i]
                    /\ Selected(k) # xml_root[j]

\* C2 happens, the other case: an all-type record is selected although an
\* all-class record that matches the interaction too comes first in the
\* document
SelectsTypeOverClass ==
    /\ pc = "done"
    /\ \E k \in 1..Len(matched) :
          /\ matched[k] > 0
          /\ ClassCount(Selected(k)) = 0
          /\ \E M \in {MatchSet(topo_by_type[k])} :
                \E j \in M :
                    /\ ClassCount(xml_root[j]) = NParams(topo_type)
                    /\ j < Best(M)

\* C3: every record of the output section matches some interaction of the
\* structure under an equivalent ordering and is the first record in
\* priority order that matches it.
EmittedIsReferenced ==
    \A p \in 1..Len(section) :
        \E t \in Range(topo_temp) :
            \E M \in {MatchSet(t)} :
                /\ Fits(section[p], t)
                /\ M # {}
                /\ section[p] = xml_root[Best(M)]

\* C3 happens: a record with class positions is emitted while the document
\* holds a record that matches no interaction
EmittedIsReferencedWitness ==
    /\ pc = "done"
    /\ \E p \in 1..Len(section) : ClassCount(section[p]) > 0
    /\ \E j \in 1..Len(xml_root) :
          /\ ~ Malformed(xml_root[j])
          /\ \A t \in Range(topo_temp) : ~ Fits(xml_root[j], t)

\* C4: every tuple equivalent to a processed unique interaction selects the
\* record the interaction selected, or none when it selected none.
SelectionInvariantUnderGroup ==
    \A k \in 1..Len(matched) :
        \A u \in Orbit(topo_type, topo_by_type[k]) :
            \A r \in {Search(u, topo_entries, atom_type_dict, topo_type)} :
                IF matched[k] = 0 THEN r.outcome = "none"
                ELSE r.outcome = "match" /\ r.entry = matched[k]

\* C4 happens: a four-body star interaction with three distinct orderings of
\* its peripheral atoms selected a record that does not match it in the
\* order it is written
SelectionInvariantUnderGroupWitness ==
    /\ pc = "done"
    /\ topo_type = "Improper"
    /\ \E k \in 1..Len(matched) :
          /\ matched[k] > 0
          /\ ~ RecMatches(Selected(k), topo_by_type[k], atom_type_dict)
          /\ Cardinality(Orbit(topo_type, topo_by_type[k])) = 3

\* the indices of the first occurrences of the equivalence classes
FirstIdx ==
    {i \in 1..Len(topo_temp) :
        \A j \in 1..(i - 1) : topo_temp[j] \notin Orbit(topo_type, topo_temp[i])}

\* C5: when the scan ends, the retained list is the first occurrence of
\* every equivalence class, in source order; no two retained tuples are
\* equivalent, every tuple of the structure is equivalent to exactly one
\* retained tuple, and the scan of the retained list returns it unchanged.
DedupKeepsFirstOccurrences ==
    pc = "classify" =>
        \A first \in {FirstIdx} :
        /\ Len(topo_by_type) = Cardinality(first)
        /\ \A k \in 1..Len(topo_by_type) :
              \E i \in first :
                  /\ Cardinality({j \in first : j <= i}) = k
                  /\ topo_by_type[k] = topo_temp[i]
        /\ \A k, m \in 1..Len(topo_by_type) :
              k # m => topo_by_type[m] \notin Orbit(topo_type, topo_by_type[k])
        /\ \A i \in 1..Len(topo_temp) :
              Cardinality({k \in 1..Len(topo_by_type) :
                              topo_by_type[k] \in Orbit(topo_type, topo_temp[i])}) = 1
        /\ Dedup(topo_by_type, <<>>, topo_type) = topo_by_type

\* C5 happens: the structure lists a tuple and later a different ordering of
\* it, and the later one is dropped
DedupKeepsFirstOccurrencesWitness ==
    /\ pc = "classify"
    /\ Len(topo_by_type) < Len(topo_temp)
    /\ \E i, j \in 1..Len(topo_temp) :
          /\ i < j
          /\ topo_temp[i] # topo_temp[j]
          /\ topo_temp[j] \in Orbit(topo_type, topo_temp[i])

\* C7: no record is twice in the output section, the section holds at most
\* one record per unique interaction that matched, and the structure with
\* bonds (t1,t2), (t2,t1) and the single record type1=t1, type2=t2 gets
\* exactly that one entry.
EmittedAtMostOnce ==
    /\ \A p, q \in 1..Len(section) : p # q => section[p] # section[q]
    /\ Len(section) <= Cardinality({k \in 1..Len(matched) : matched[k] > 0})
    /\ ( /\ pc = "done"
         /\ topo_type = "Bond"
         /\ topo_temp = << <<"a", "b">>, <<"b", "a">> >>
         /\ xml_root = << Attrib(<<"type", "type">>, <<"a", "b">>) >> )
       => section = xml_root

\* C7 happens: two unique interactions selected the same record and the
\* section holds it once
EmittedAtMostOnceWitness ==
    /\ pc = "done"
    /\ Len(section) = 1
    /\ \E k, m \in 1..Len(matched) :
          k # m /\ matched[k] > 0 /\ matched[m] = matched[k]

\* C8 as claimed: a run that holds a record lacking both attributes of a
\* position does not complete.
MalformedAlwaysFails ==
    pc = "done" => \A j \in 1..Len(xml_root) : ~ Malformed(xml_root[j])

\* the interaction reaches a malformed record: no record that comes before
\* the malformed one in priority order matches it
ReachesMalformed(t) ==
    \E j \in 1..Len(xml_root) :
        /\ Malformed(xml_root[j])
        /\ \A i \in MatchSet(t) : ~ Prec(i, j)

\* C8 as amended: the records are classified without failure; the run fails,
\* in the matching loop, exactly when some unique interaction is matched by
\* no record that precedes a malformed record in priority order.
MalformedFailsWhenCompared ==
    /\ pc = "error" =>
          /\ Len(topo_entries) = Len(xml_root)
          /\ Len(matched) < Len(topo_by_type)
          /\ ReachesMalformed(topo_by_type[Len(matched) + 1])
    /\ pc \in {"match", "done"} =>
          /\ Len(topo_entries) = Len(xml_root)
          /\ \A k \in 1..Len(matched) : ~ ReachesMalformed(topo_by_type[k])

\* C8 as amended happens: the run fails at the second unique interaction,
\* after the first one selected a record
MalformedFailsWhenComparedWitness ==
    /\ pc = "error"
    /\ Len(matched) >= 1
    /\ section # <<>>

\* C9: the records of the section are in the order of the first unique
\* interaction that selected them.
EmittedInFirstMatchOrder ==
    \A p, q \in 1..Len(section) :
        \A sp \in {Selectors(section[p])}, sq \in {Selectors(section[q])} :
            /\ sp # {}
            /\ sq # {}
            /\ p < q <=> Least(sp) < Least(sq)

\* C9 happens: two records are emitted in the reverse of their order in the
\* document
EmittedInFirstMatchOrderWitness ==
    /\ pc = "done"
    /\ Len(section) = 2
    /\ \E i, j \in 1..Len(xml_root) :
          i < j /\ xml_root[j] = section[1] /\ xml_root[i] = section[2]

----------------------------------------------------------------------------
(* forcefield_trim: the atom-type resolver.  Identifiers are sequences of   *)
(* characters here, so that overrides.split(',') is computed.               *)

RECURSIVE SplitFrom(_, _, _)
\* str.split(','), reading str from the left with the current piece cur and
\* the pieces acc already closed by a comma
SplitFrom(str, cur, acc) ==
    IF str = <<>> THEN Append(acc, cur)
    ELSE IF Head(str) = ","
         THEN SplitFrom(Tail(str), <<>>, Append(acc, cur))
         ELSE SplitFrom(Tail(str), Append(cur, Head(str)), acc)

\* overrides.split(',')
Split(str) == SplitFrom(str, <<>>, <<>>)

\* a faulty variant of OverridesOf: only the first identifier of the list
\* is read
OverridesOfFirst(rec) ==
    IF "overrides" \in DOMAIN rec THEN <<Split(rec.overrides)[1]>> ELSE <<>>

\* the identifiers the record's overrides attribute names, none when the
\* record has no such attribute
OverridesOf(rec) ==
    IF "overrides" \in DOMAIN rec THEN Split(rec.overrides) ELSE <<>>

\* a faulty variant of NotKnown: the test of atom_type_dict is dropped
NotKnownAlways(override, d) == TRUE

\* override not in atom_type_dict
NotKnown(override, d) == override \notin DOMAIN d

RECURSIVE CollectForType(_, _, _)
\* the loop over the Type records for one key of atom_type_dict: the
\* identifiers it stores in atom_type_overrides_dict, in order
CollectForType(atom_type, records, d) ==
    IF records = <<>> THEN <<>>
    ELSE (IF Head(records).name = atom_type
          THEN SelectSeq(OverridesOf(Head(records)), LAMBDA o : NotKnown(o, d))
          ELSE <<>>)
         \o CollectForType(atom_type, Tail(records), d)

RECURSIVE CollectAll(_, _, _)
\* the loop over the keys of atom_type_dict, in insertion order
CollectAll(keys, records, d) ==
    IF keys = <<>> THEN <<>>
    ELSE CollectForType(Head(keys), records, d)
         \o CollectAll(Tail(keys), records, d)

RECURSIVE KeysOf(_, _)
\* the keys of a dictionary filled by the assignments in ids, in insertion
\* order, after the keys already in seen
KeysOf(ids, seen) ==
    IF ids = <<>> THEN <<>>
    ELSE IF Head(ids) \in seen THEN KeysOf(Tail(ids), seen)
    ELSE <<Head(ids)>> \o KeysOf(Tail(ids), seen \cup {Head(ids)})

\* the class the pass leaves for a key: that of the last Type record with
\* the key's name, the old value when there is none
ClassAfterPass(atom_type, records, old) ==
    LET hits == {k \in 1..Len(records) : records[k].name = atom_type} IN
    IF hits = {} THEN old
    ELSE records[CHOOSE k \in hits : \A m \in hits : m <= k].class

\* the atom-type names of the structure
AtomNames == { <<"a">>, <<"b">> }

\* the <Type> records a document may hold: with class "P" and an overrides
\* attribute that names one identifier, two identifiers, or is empty, and
\* without the attribute with class "P" or "Q"
TypeRecordSet ==
    { [name |-> nm, class |-> "P", overrides |-> ov] :
        nm \in { <<"a">>, <<"b">>, <<"c">> },
        ov \in { <<"a">>, <<"b">>, <<"b", ",", "c">>, <<>> } }
    \cup
    { [name |-> nm, class |-> cl] :
        nm \in { <<"a">>, <<"b">>, <<"c">> }, cl \in {"P", "Q"} }

InitResolve ==
    /\ pc = "collect"
    /\ typed_atoms \in SeqUpTo(AtomNames, MaxAtoms)
    /\ type_records \in SeqUpTo(TypeRecordSet, MaxTypes)
    /\ atom_type_dict = <<>>
    /\ atom_type_keys = <<>>
    /\ notes = <<>>
    /\ passes = 0
    /\ topo_type = "Bond"
    /\ topo_temp = <<>>
    /\ xml_root = <<>>
    /\ topo_by_type = <<>>
    /\ topo_entries = <<>>
    /\ unique_collection = <<>>
    /\ section = <<>>
    /\ matched = <<>>

\* the loop over typed_molecule.atoms that fills atom_type_dict with ''
CollectTypes ==
    /\ pc = "collect"
    /\ atom_type_keys' = KeysOf(typed_atoms, {})
    /\ atom_type_dict' = [k \in Range(typed_atoms) |-> ""]
    /\ pc' = "resolve"
    /\ UNCHANGED <<typed_atoms, type_records, notes, passes>>
    /\ UNCHANGED matchVars

\* one pass of the while loop: the classes are set, the overrides that are
\* not yet keys are collected, added and printed; the loop ends when there
\* are none
Pass ==
    /\ pc = "resolve"
    /\ passes < MaxPasses
    /\ LET found == KeysOf(CollectAll(atom_type_keys, type_records, atom_type_dict), {})
           classes == [k \in DOMAIN atom_type_dict |->
                          ClassAfterPass(k, type_records, atom_type_dict[k])]
       IN  /\ atom_type_dict' =
                 [k \in DOMAIN atom_type_dict \cup Range(found) |->
                     IF k \in Range(found) THEN "" ELSE classes[k]]
           /\ atom_type_keys' =
                 atom_type_keys \o KeysOf(found, DOMAIN atom_type_dict)
           /\ notes' = notes \o found
           /\ pc' = IF found = <<>> THEN "resolved" ELSE "resolve"
    /\ passes' = passes + 1
    /\ UNCHANGED <<typed_atoms, type_records>>
    /\ UNCHANGED matchVars

NextResolve == CollectTypes \/ Pass

SpecResolve == InitResolve /\ [][NextResolve]_vars

----------------------------------------------------------------------------
(* Properties of the atom-type resolver *)

\* the identifiers named by the override lists of the records whose name is
\* in S
OverrideTargets(S) ==
    UNION { Range(Split(type_records[k].overrides)) :
              k \in {m \in 1..Len(type_records) :
                        /\ type_records[m].name \in S
                        /\ "overrides" \in DOMAIN type_records[m]} }

RECURSIVE Closure(_)
\* the smallest set that contains S and the override targets of its members
Closure(S) ==
    IF OverrideTargets(S) \subseteq S THEN S
    ELSE Closure(S \cup OverrideTargets(S))

\* the Type records with the given name
RecordsNamed(nm) == {k \in 1..Len(type_records) : type_records[k].name = nm}

\* C6: when the resolver finishes, the keys of the map are the closure of
\* the structure's atom types under the override lists; a key with a Type
\* record has the class of its (last) record, any other key is unresolved;
\* the keys that are not atom types of the structure are the identifiers
\* the notes report.
ResolverComputesClosure ==
    pc = "resolved" =>
        /\ DOMAIN atom_type_dict = Closure(Range(typed_atoms))
        /\ Range(atom_type_keys) = DOMAIN atom_type_dict
        /\ \A nm \in DOMAIN atom_type_dict :
              IF RecordsNamed(nm) = {} THEN atom_type_dict[nm] = ""
              ELSE \E k \in RecordsNamed(nm) :
                      /\ \A m \in RecordsNamed(nm) : m <= k
                      /\ atom_type_dict[nm] = type_records[k].class
        /\ Range(notes) = DOMAIN atom_type_dict \ Range(typed_atoms)

\* C6 happens: an identifier is reached through two override lists in a row
\* and has no Type record, so it is a key, unresolved, and reported
ResolverComputesClosureWitness ==
    /\ pc = "resolved"
    /\ \E y \in DOMAIN atom_type_dict :
          /\ y \notin Range(typed_atoms)
          /\ y \notin OverrideTargets(Range(typed_atoms))
          /\ RecordsNamed(y) = {}
          /\ atom_type_dict[y] = ""
          /\ y \in Range(notes)

\* C10: the number of passes is at most the number of distinct identifiers
\* named in override lists plus one, every pass that does not end the loop
\* has added a key, and the loop is never stopped by the cap of the model.
ResolverPassesBounded ==
    LET ids == OverrideTargets({type_records[k].name : k \in 1..Len(type_records)})
        open == IF pc = "resolved" THEN passes - 1 ELSE passes
    IN  /\ passes <= Cardinality(ids) + 1
        /\ pc \in {"resolve", "resolved"} =>
              Len(atom_type_keys) >= Cardinality(Range(typed_atoms)) + open
        /\ pc = "resolve" => passes < MaxPasses

\* C10 happens: two Type records override each other and the loop has ended
\* after two passes
ResolverPassesBoundedWitness ==
    /\ pc = "resolved"
    /\ passes = 2
    /\ \E i, j \in 1..Len(type_records) :
          /\ type_records[i].name # type_records[j].name
          /\ type_records[i].name \in OverrideTargets({type_records[j].name})
          /\ type_records[j].name \in OverrideTargets({type_records[i].name})
          /\ type_records[i].name \in Range(typed_atoms)

====
